---------------------------- MODULE Spec2Model ----------------------------
(***************************************************************************)
(* libcrossterm: the C-callable wrapper around crossterm (src/src/lib.rs). *)
(* The model covers the thread-local error channel (RESULT, LAST_ERROR),   *)
(* the string bridge (convert_string_to_c_char, crossterm_free_c_char) and *)
(* the exported wrappers built on them.  Text is modelled as the sequence  *)
(* of its UTF-8 bytes, a pointer as a heap address (0 is the null pointer).*)
(***************************************************************************)
EXTENDS Integers, Sequences, FiniteSets, TLC

VARIABLES
  RESULT,      \* thread_local RESULT: thread -> c_int
  LAST_ERROR,  \* thread_local LAST_ERROR: thread -> Option<anyhow::Error>
  mem,         \* the C heap: address -> whether it is allocated
  stdout,      \* the writes queued in the process-wide std::io::stdout() buffer
  oom,         \* number of allocation failures so far
  panicked,    \* a panic reached the extern "C" boundary
  strings,     \* the caller's own C strings: address -> bytes, terminator included
  events,      \* the events that reached the terminal and were not read yet
  call         \* the most recent call: who made it, its inputs, what it returned,
               \* the bytes at the pointer it returned, and whether the same thread
               \* made the same call right before it

vars == <<RESULT, LAST_ERROR, mem, stdout, oom, panicked, strings, events, call>>

----------------------------------------------------------------------------
(* Bounds of the model.                                                    *)

\* number of heap addresses malloc can hand out
MaxBufs == 2
\* number of times malloc is let to return NULL
MaxOom == 1
\* number of writes the stdout buffer holds
MaxQueue == 1
\* longest text (in characters) handed to convert_string_to_c_char directly
MaxLen == 3

\* the calling thread of the single-threaded host program
Threads == {1}
\* the calling threads of the two-threaded host program
ThreadsMT == {1, 2}
Addrs == 1..MaxBufs
NULL == 0
\* the addresses of the C strings the caller owns
CallerAddrs == (MaxBufs + 1)..(MaxBufs + 2)

----------------------------------------------------------------------------
(* Text literals of the source, as UTF-8 bytes.                            *)

\* "No error message found. Check library documentation for more information." (the fallback text of crossterm_last_error_message)
MsgNoError ==
  <<78, 111, 32, 101, 114, 114, 111, 114, 32, 109, 101, 115, 115, 97, 103,
    101, 32, 102, 111, 117, 110, 100, 46, 32, 67, 104, 101, 99, 107, 32, 108,
    105, 98, 114, 97, 114, 121, 32, 100, 111, 99, 117, 109, 101, 110, 116,
    97, 116, 105, 111, 110, 32, 102, 111, 114, 32, 109, 111, 114, 101, 32,
    105, 110, 102, 111, 114, 109, 97, 116, 105, 111, 110, 46>>
\* "Received null pointer to free"
MsgNullFree ==
  <<82, 101, 99, 101, 105, 118, 101, 100, 32, 110, 117, 108, 108, 32, 112,
    111, 105, 110, 116, 101, 114, 32, 116, 111, 32, 102, 114, 101, 101>>
\* "Unable to convert "
PfxUnableToConvert ==
  <<85, 110, 97, 98, 108, 101, 32, 116, 111, 32, 99, 111, 110, 118, 101, 114,
    116, 32>>
\* " to CString"
SfxToCString ==
  <<32, 116, 111, 32, 67, 83, 116, 114, 105, 110, 103>>
\* " to valid char"
SfxToValidChar ==
  <<32, 116, 111, 32, 118, 97, 108, 105, 100, 32, 99, 104, 97, 114>>
\* "Unable to malloc for "
PfxUnableToMalloc ==
  <<85, 110, 97, 98, 108, 101, 32, 116, 111, 32, 109, 97, 108, 108, 111, 99,
    32, 102, 111, 114, 32>>
\* "Bad file descriptor (os error 9)" (Display of std::io::Error for errno 9)
EBADF ==
  <<66, 97, 100, 32, 102, 105, 108, 101, 32, 100, 101, 115, 99, 114, 105,
    112, 116, 111, 114, 32, 40, 111, 115, 32, 101, 114, 114, 111, 114, 32,
    57, 41>>
\* "Inappropriate ioctl for device (os error 25)" (Display of std::io::Error for errno 25)
ENOTTY ==
  <<73, 110, 97, 112, 112, 114, 111, 112, 114, 105, 97, 116, 101, 32, 105,
    111, 99, 116, 108, 32, 102, 111, 114, 32, 100, 101, 118, 105, 99, 101,
    32, 40, 111, 115, 32, 101, 114, 114, 111, 114, 32, 50, 53, 41>>
\* "Received null pointer for print string"
MsgNullPrint ==
  <<82, 101, 99, 101, 105, 118, 101, 100, 32, 110, 117, 108, 108, 32, 112,
    111, 105, 110, 116, 101, 114, 32, 102, 111, 114, 32, 112, 114, 105, 110,
    116, 32, 115, 116, 114, 105, 110, 103>>
\* "Received invalid UTF-8 string for print string"
MsgBadUtf8Print ==
  <<82, 101, 99, 101, 105, 118, 101, 100, 32, 105, 110, 118, 97, 108, 105,
    100, 32, 85, 84, 70, 45, 56, 32, 115, 116, 114, 105, 110, 103, 32, 102,
    111, 114, 32, 112, 114, 105, 110, 116, 32, 115, 116, 114, 105, 110, 103>>
\* "Received null pointer for title string"
MsgNullTitle ==
  <<82, 101, 99, 101, 105, 118, 101, 100, 32, 110, 117, 108, 108, 32, 112,
    111, 105, 110, 116, 101, 114, 32, 102, 111, 114, 32, 116, 105, 116, 108,
    101, 32, 115, 116, 114, 105, 110, 103>>
\* "Received invalid UTF-8 string for title"
MsgBadUtf8Title ==
  <<82, 101, 99, 101, 105, 118, 101, 100, 32, 105, 110, 118, 97, 108, 105,
    100, 32, 85, 84, 70, 45, 56, 32, 115, 116, 114, 105, 110, 103, 32, 102,
    111, 114, 32, 116, 105, 116, 108, 101>>
\* Something went wrong with crossterm_event_read(): 
PfxReadWrong ==
  <<83, 111, 109, 101, 116, 104, 105, 110, 103, 32, 119, 101, 110, 116, 32,
    119, 114, 111, 110, 103, 32, 119, 105, 116, 104, 32, 99, 114, 111, 115,
    115, 116, 101, 114, 109, 95, 101, 118, 101, 110, 116, 95, 114, 101, 97,
    100, 40, 41, 58, 32>>
\* \n\nCaused by: (anyhow's Debug heading of the causes)
CausedBy ==
  <<10, 10, 67, 97, 117, 115, 101, 100, 32, 98, 121, 58>>
\* FocusGained (the name of the variant Event::FocusGained)
FocusGained ==
  <<70, 111, 99, 117, 115, 71, 97, 105, 110, 101, 100>>
\* {"error": (the start of a JSON object whose only key is "error")
ErrorKey ==
  <<123, 34, 101, 114, 114, 111, 114, 34, 58>>

\* the separator anyhow's alternate Display ("{:#}") puts between causes: ": "
CauseSep == <<58, 32>>

\* the std::io::Error values the delegated crossterm calls are let to fail with
IoErrors == {<<EBADF>>, <<ENOTTY>>}

----------------------------------------------------------------------------
(* Values.                                                                 *)

\* Option<anyhow::Error>: None, or an error as its chain of cause messages
None == <<>>

\* anyhow::anyhow!(msg): an error with a single cause
anyhow(msg) == <<msg>>

RECURSIVE Render(_)
\* format!("{:#}", err): the causes of the chain joined by ": "
Render(err) ==
  IF Len(err) = 1 THEN err[1]
  ELSE err[1] \o CauseSep \o Render(Tail(err))

RECURSIVE Concat(_)
\* the concatenation of a sequence of byte sequences
Concat(ss) == IF ss = <<>> THEN <<>> ELSE Head(ss) \o Concat(Tail(ss))

RECURSIVE Decimal(_)
\* format!("{}", n) of an unsigned integer: its decimal digits
Decimal(n) ==
  IF n < 10 THEN <<48 + n>>
  ELSE Decimal(n \div 10) \o <<48 + (n % 10)>>

\* the thread-local cells, handed to the operations as one value
TL == [RESULT |-> RESULT, LAST_ERROR |-> LAST_ERROR]

----------------------------------------------------------------------------
(* The error channel.                                                      *)

\* a bug: the error slot is one global cell shared by all threads
set_last_error_global(tl, t, err) ==
  [tl EXCEPT !.LAST_ERROR = [u \in DOMAIN tl.LAST_ERROR |-> err]]

\* a set_last_error that keeps the error already held
set_last_error_keep_first(tl, t, err) ==
  IF tl.LAST_ERROR[t] # None THEN tl ELSE [tl EXCEPT !.LAST_ERROR[t] = err]


\* set_last_error: *e.borrow_mut() = Some(err)
set_last_error(tl, t, err) ==
  [tl EXCEPT !.LAST_ERROR[t] = err]

\* a bug: the error is read but left in place (a peek)
take_last_error_peek(tl, t) == tl

\* a take_last_error that resets the status with the error
take_last_error_resetting(tl, t) ==
  [tl EXCEPT !.LAST_ERROR[t] = None, !.RESULT[t] = 0]


\* take_last_error: prev.borrow_mut().take(); the state it leaves
take_last_error(tl, t) ==
  [tl EXCEPT !.LAST_ERROR[t] = None]

\* the Option<anyhow::Error> take_last_error returns
taken(tl, t) == tl.LAST_ERROR[t]

\* crossterm_has_error: prev.borrow().is_some()
crossterm_has_error(tl, t) == tl.LAST_ERROR[t] # None

\* r!(): RESULT.with(|r| r.borrow().clone())
r(tl, t) == tl.RESULT[t]

\* error_message: the rendered message of the error held, which stays in place
error_message(tl, t) ==
  IF tl.LAST_ERROR[t] # None
  THEN [some |-> TRUE, val |-> Render(tl.LAST_ERROR[t])]
  ELSE [some |-> FALSE, val |-> <<>>]

\* the length of the message without its terminator
crossterm_last_error_length_no_nul(tl, t) ==
  IF tl.LAST_ERROR[t] # None THEN Len(Render(tl.LAST_ERROR[t])) ELSE 0


\* crossterm_last_error_length: rendered length + 1, or 0 when no error is held
crossterm_last_error_length(tl, t) ==
  IF tl.LAST_ERROR[t] # None THEN Len(Render(tl.LAST_ERROR[t])) + 1 ELSE 0

\* a delegated call's result: Ok(value) or Err(io error)
Ok(v) == [ok |-> TRUE, val |-> v, err |-> None]
Err(e) == [ok |-> FALSE, val |-> 0, err |-> e]

\* a CUnwrapper that sets RESULT and drops the error
c_unwrap_status_only(tl, t, res) ==
  [tl EXCEPT !.RESULT[t] = IF res.ok THEN 0 ELSE -1]


\* CUnwrapper for Result<T, std::io::Error>: the thread-local state it leaves.
\* Ok sets RESULT to 0 and leaves LAST_ERROR alone.
c_unwrap(tl, t, res) ==
  IF res.ok THEN [tl EXCEPT !.RESULT[t] = 0]
  ELSE set_last_error([tl EXCEPT !.RESULT[t] = -1], t, res.err)

\* CUnwrapper for anyhow::Result<T>: Ok sets RESULT to 0 and takes LAST_ERROR
c_unwrap_anyhow(tl, t, res) ==
  IF res.ok THEN take_last_error([tl EXCEPT !.RESULT[t] = 0], t)
  ELSE set_last_error([tl EXCEPT !.RESULT[t] = -1], t, res.err)

\* the value c_unwrap returns: t on Ok, T::default() on Err
c_unwrap_value(res, default) == IF res.ok THEN res.val ELSE default

----------------------------------------------------------------------------
(* The string bridge.                                                      *)

\* the marker of a heap byte that was never written
Uninit == -1

\* std::ffi::CString::new: Err when the bytes hold a 0, else the bytes
CString_new(string) ==
  IF \E i \in 1..Len(string) : string[i] = 0
  THEN [ok |-> FALSE, val |-> <<>>]
  ELSE [ok |-> TRUE, val |-> string]

\* a bug: the terminator is left out (as_bytes instead of as_bytes_with_nul)
as_bytes_without_nul(c_string) == c_string

\* CString::as_bytes_with_nul: the bytes followed by the terminating 0
as_bytes_with_nul(c_string) == Append(c_string, 0)

\* libc::malloc returning addr: the heap with addr allocated
malloc(heap, addr) == [heap EXCEPT ![addr] = TRUE]

\* the block of n bytes libc::malloc(n) hands out, not yet written
Unwritten(n) == [i \in 1..n |-> Uninit]

\* a copy that stops one byte short, leaving the terminator unwritten
copy_nonoverlapping_short(src, dst, count) ==
  [i \in 1..Len(dst) |-> IF i < count THEN src[i] ELSE dst[i]]

\* std::ptr::copy_nonoverlapping(src, dst, count): dst after the copy
copy_nonoverlapping(src, dst, count) ==
  [i \in 1..Len(dst) |-> IF i <= count THEN src[i] ELSE dst[i]]

\* a bug: the allocation is not released
free_stays(heap, s) == heap

\* libc::free(s): the allocation at s is gone
free(heap, s) == [heap EXCEPT ![s] = FALSE]

\* a conversion that fails without recording why
convert_string_to_c_char_silent(tl, heap, t, string, m) ==
  LET c_string == CString_new(string) IN
  IF ~c_string.ok
  THEN [ret |-> NULL, mem |-> heap, buf |-> <<>>, asked |-> FALSE, tl |-> tl]
  ELSE LET string_len == Len(as_bytes_with_nul(c_string.val)) IN
       IF m = NULL
       THEN [ret |-> NULL, mem |-> heap, buf |-> <<>>, asked |-> TRUE,
             tl |-> tl]
       ELSE [ret |-> m, tl |-> tl, mem |-> malloc(heap, m), asked |-> TRUE,
             buf |-> copy_nonoverlapping(as_bytes_with_nul(c_string.val),
                                         Unwritten(string_len), string_len)]


\* a bug: a text with an embedded 0 is cut at the 0 instead of rejected
convert_string_to_c_char_truncating(tl, heap, t, string, m) ==
  LET cut == IF \E i \in 1..Len(string) : string[i] = 0
             THEN CHOOSE i \in 1..Len(string) :
                    string[i] = 0 /\ \A j \in 1..(i - 1) : string[j] # 0
             ELSE Len(string) + 1
      bytes == Append(SubSeq(string, 1, cut - 1), 0)
  IN IF m = NULL
     THEN [ret |-> NULL, mem |-> heap, buf |-> <<>>, asked |-> TRUE,
           tl |-> set_last_error(tl, t, anyhow(PfxUnableToMalloc \o string))]
     ELSE [ret |-> m, tl |-> tl, mem |-> malloc(heap, m), asked |-> TRUE,
           buf |-> copy_nonoverlapping(bytes, Unwritten(Len(bytes)), Len(bytes))]

\* convert_string_to_c_char(string) on thread t, with m what libc::malloc
\* returns when it is called (NULL or a free address): the pointer returned,
\* the bytes of the buffer it points to, the thread-local state and the heap
\* it leaves, and whether libc::malloc was called
convert_string_to_c_char(tl, heap, t, string, m) ==
  LET c_string == CString_new(string) IN
  IF ~c_string.ok
  THEN [ret |-> NULL, mem |-> heap, buf |-> <<>>, asked |-> FALSE,
        tl |-> set_last_error(tl, t,
                 anyhow(PfxUnableToConvert \o string \o SfxToCString))]
  ELSE LET string_len == Len(as_bytes_with_nul(c_string.val)) IN
       IF m = NULL
       THEN [ret |-> NULL, mem |-> heap, buf |-> <<>>, asked |-> TRUE,
             tl |-> set_last_error(tl, t, anyhow(PfxUnableToMalloc \o string))]
       ELSE [ret |-> m, tl |-> tl, mem |-> malloc(heap, m), asked |-> TRUE,
             buf |-> copy_nonoverlapping(as_bytes_with_nul(c_string.val),
                                         Unwritten(string_len), string_len)]

\* what libc::malloc may return in this state: a free address, or NULL
MallocResults ==
  {a \in Addrs : ~mem[a]} \cup (IF oom < MaxOom THEN {NULL} ELSE {})

\* the count of allocation failures after the conversion c, malloc
\* returning m if called
OomAfter(c, m) == IF c.asked /\ m = NULL THEN oom + 1 ELSE oom

\* what a C caller reads at a buffer: the bytes before the first 0
\* (running off the end of a buffer without one is marked by Uninit)
CStrRead(buf) ==
  IF \E i \in 1..Len(buf) : buf[i] = 0
  THEN LET n == CHOOSE i \in 1..Len(buf) :
                  buf[i] = 0 /\ \A j \in 1..(i - 1) : buf[j] # 0
       IN SubSeq(buf, 1, n - 1)
  ELSE Append(buf, Uninit)

----------------------------------------------------------------------------
(* The wrapped library, as far as the wrappers see it.                     *)

\* the results a delegated call returning () may have
UnitResults == {Ok(0)} \cup {Err(e) : e \in IoErrors}

\* the results crossterm::event::poll may have
PollResults == {Ok(TRUE), Ok(FALSE)} \cup {Err(e) : e \in IoErrors}

\* the UTF-8 encoding of a Unicode scalar value
Utf8(c) ==
  IF c < 128 THEN <<c>>
  ELSE IF c < 2048 THEN <<192 + (c \div 64), 128 + (c % 64)>>
  ELSE IF c < 65536
       THEN <<224 + (c \div 4096), 128 + ((c \div 64) % 64), 128 + (c % 64)>>
  ELSE <<240 + (c \div 262144), 128 + ((c \div 4096) % 64),
         128 + ((c \div 64) % 64), 128 + (c % 64)>>

\* a bug: the surrogates are taken for characters
from_u32_is_some_surrogates(c) == c <= 1114111

\* std::char::from_u32(c).is_some(): c is a Unicode scalar value
from_u32_is_some(c) == c <= 1114111 /\ ~(c >= 55296 /\ c <= 57343)

\* what crossterm::cursor::MoveTo(col, row) writes: ESC [ row+1 ; col+1 H
MoveTo(col, row) ==
  <<27, 91>> \o Decimal(row + 1) \o <<59>> \o Decimal(col + 1) \o <<72>>

\* what crossterm::event::PushKeyboardEnhancementFlags(flags) writes: ESC [ > flags u
PushKeyboardEnhancementFlags(flags) ==
  <<27, 91, 62>> \o Decimal(flags) \o <<117>>

\* KeyboardEnhancementFlags::from_bits(flags).is_some(): only the four
\* defined bits (0b0000_1111) are set
from_bits_is_some(flags) == flags < 16

\* queue!(std::io::stdout(), command): stdout after the write returned res
queue(out, bytes, res) == IF res.ok THEN Append(out, bytes) ELSE out

\* a u64 as four 16-bit limbs, most significant first
U64Zero == <<0, 0, 0, 0>>
U64Max == <<65535, 65535, 65535, 65535>>

\* u64::checked_add(secs, n).is_none() for n < 65536
checked_add_overflows(secs, n) ==
  LET c4 == (secs[4] + n) \div 65536
      c3 == (secs[3] + c4) \div 65536
      c2 == (secs[2] + c3) \div 65536
  IN (secs[1] + c2) \div 65536 > 0

\* std::time::Duration::new(secs, nanos) panics: the carry of the
\* nanoseconds overflows the seconds
Duration_new_panics(secs, nanos) ==
  checked_add_overflows(secs, nanos \div 1000000000)

----------------------------------------------------------------------------
(* The calls.                                                              *)

\* the record of a call that returned
Returned(t, op, outcome, ret, arg) ==
  [thread |-> t, op |-> op, outcome |-> outcome, ret |-> ret, arg |-> arg,
   buf |-> <<>>, again |-> call.op = op /\ call.thread = t]

\* the record of a call that returned a pointer to a buffer holding buf
ReturnedBuf(t, op, ret, arg, buf) ==
  [thread |-> t, op |-> op, outcome |-> "none", ret |-> ret, arg |-> arg,
   buf |-> buf, again |-> call.op = op /\ call.thread = t]

\* the thread-local cells become those of tl
Store(tl) == RESULT' = tl.RESULT /\ LAST_ERROR' = tl.LAST_ERROR

\* a bug: the threads start as if a call had failed
InitOf_failed(T) ==
  /\ RESULT = [t \in T |-> -1]
  /\ LAST_ERROR = [t \in T |-> anyhow(MsgNoError)]
  /\ mem = [a \in Addrs |-> FALSE]
  /\ stdout = <<>>
  /\ oom = 0
  /\ panicked = FALSE
  /\ events = <<>>

\* the state when the threads of T start: status 0, no error held, nothing
\* allocated or queued, no call made yet
InitOf(T) ==
  /\ RESULT = [t \in T |-> 0]
  /\ LAST_ERROR = [t \in T |-> None]
  /\ mem = [a \in Addrs |-> FALSE]
  /\ stdout = <<>>
  /\ oom = 0
  /\ panicked = FALSE
  /\ events = <<>>

\* no call was made yet; arg is the text a first call is to be given
NoCall(arg) ==
  [thread |-> 1, op |-> "none", outcome |-> "none", ret |-> 0,
   arg |-> arg, buf |-> <<>>, again |-> FALSE]

\* a caller whose strings are all empty
EmptyStrings == [a \in CallerAddrs |-> <<0>>]

Init == InitOf(Threads) /\ strings = EmptyStrings /\ call = NoCall(<<>>)

\* a call of the pub fn take_last_error; ret is 1 for Some, 0 for None
take_last_error_call(t) ==
  /\ ~panicked
  /\ Store(take_last_error(TL, t))
  /\ call' = Returned(t, "take_last_error", "none",
                      IF taken(TL, t) # None THEN 1 ELSE 0, taken(TL, t))
  /\ UNCHANGED <<mem, stdout, oom, panicked, strings, events>>

\* a bug: the query takes the error it finds
crossterm_has_error_call_taking(t) ==
  /\ ~panicked
  /\ Store(take_last_error(TL, t))
  /\ call' = Returned(t, "crossterm_has_error", "none",
                      IF crossterm_has_error(TL, t) THEN 1 ELSE 0, <<>>)
  /\ UNCHANGED <<mem, stdout, oom, panicked, strings, events>>

crossterm_has_error_call(t) ==
  /\ ~panicked
  /\ call' = Returned(t, "crossterm_has_error", "none",
                      IF crossterm_has_error(TL, t) THEN 1 ELSE 0, <<>>)
  /\ UNCHANGED <<RESULT, LAST_ERROR, mem, stdout, oom, panicked, strings, events>>

\* a bug: the error is dropped at the second call only
crossterm_clear_last_error_late(t) ==
  /\ ~panicked
  /\ Store(IF call.op = "crossterm_clear_last_error" THEN take_last_error(TL, t) ELSE TL)
  /\ call' = Returned(t, "crossterm_clear_last_error", "none", 0, taken(TL, t))
  /\ UNCHANGED <<mem, stdout, oom, panicked, strings, events>>

\* arg is the error the call dropped: let _ = take_last_error()
crossterm_clear_last_error(t) ==
  /\ ~panicked
  /\ Store(take_last_error(TL, t))
  /\ call' = Returned(t, "crossterm_clear_last_error", "none", 0, taken(TL, t))
  /\ UNCHANGED <<mem, stdout, oom, panicked, strings, events>>

\* a length query that takes the error it measures
crossterm_last_error_length_taking(t) ==
  /\ ~panicked
  /\ Store(take_last_error(TL, t))
  /\ call' = Returned(t, "crossterm_last_error_length", "none",
                      crossterm_last_error_length(TL, t), <<>>)
  /\ UNCHANGED <<mem, stdout, oom, panicked, strings, events>>

crossterm_last_error_length_call(t) ==
  /\ ~panicked
  /\ call' = Returned(t, "crossterm_last_error_length", "none",
                      crossterm_last_error_length(TL, t), <<>>)
  /\ UNCHANGED <<RESULT, LAST_ERROR, mem, stdout, oom, panicked, strings, events>>

\* the text rendered when an absent error stands for an empty message
last_error_text_or_empty(tl, t) ==
  IF taken(tl, t) # None THEN Render(taken(tl, t)) ELSE <<>>


\* the text crossterm_last_error_message renders: the error taken, or the fallback
last_error_text(tl, t) ==
  IF taken(tl, t) # None THEN Render(taken(tl, t)) ELSE Render(anyhow(MsgNoError))

\* arg is the text rendered; measured is what crossterm_last_error_length
\* returned if it was the thread's call right before this one, else -1
crossterm_last_error_message(t, m) ==
  LET string == last_error_text(TL, t)
      c == convert_string_to_c_char(take_last_error(TL, t), mem, t, string, m)
  IN /\ ~panicked
     /\ m \in MallocResults
     /\ Store(c.tl)
     /\ mem' = c.mem
     /\ oom' = OomAfter(c, m)
     /\ call' = ReturnedBuf(t, "crossterm_last_error_message", c.ret, string, c.buf)
                 @@ [measured |-> IF call.op = "crossterm_last_error_length" /\ call.thread = t
                                  THEN call.ret ELSE -1]
     /\ UNCHANGED <<stdout, panicked, strings, events>>

\* s is NULL or a pointer this library returned and the caller has not freed
crossterm_free_c_char(t, s) ==
  /\ ~panicked
  /\ s = NULL \/ (s \in Addrs /\ mem[s])
  /\ IF s # NULL
     THEN /\ mem' = free(mem, s)
          /\ call' = Returned(t, "crossterm_free_c_char", "ok", 0, s)
          /\ UNCHANGED <<RESULT, LAST_ERROR>>
     ELSE /\ Store(set_last_error(TL, t, anyhow(MsgNullFree)))
          /\ call' = Returned(t, "crossterm_free_c_char", "fail", -1, s)
          /\ UNCHANGED mem
  /\ UNCHANGED <<stdout, oom, panicked, strings, events>>

\* what crossterm_event_poll returns once c_unwrap left tl:
\* if crossterm_has_error() { r!() } else { r.into() }
event_poll_ret(tl, t, res) ==
  IF crossterm_has_error(tl, t) THEN r(tl, t)
  ELSE IF c_unwrap_value(res, FALSE) THEN 1 ELSE 0

\* crossterm::event::poll answering whatever it likes
poll_may_return_anything(evs, res) == TRUE

\* crossterm::event::poll may return res: it answers true exactly when an
\* event is there to be read, and leaves it there
poll_may_return(evs, res) == res.ok => (res.val <=> evs # <<>>)

crossterm_event_poll(t, secs, nanos, res) ==
  /\ ~panicked
  /\ IF Duration_new_panics(secs, nanos)
     THEN /\ panicked' = TRUE
          /\ call' = Returned(t, "crossterm_event_poll", "panic", 0, <<secs, nanos>>)
          /\ UNCHANGED <<RESULT, LAST_ERROR>>
     ELSE LET tl == c_unwrap(TL, t, res) IN
          /\ poll_may_return(events, res)
          /\ Store(tl)
          /\ call' = Returned(t, "crossterm_event_poll",
                              IF res.ok THEN "ok" ELSE "fail",
                              event_poll_ret(tl, t, res), res)
          /\ UNCHANGED panicked
  /\ UNCHANGED <<mem, stdout, oom, strings, events>>

\* room is left for one more write in the stdout buffer
Room == Len(stdout) < MaxQueue

crossterm_cursor_position_set(t, col, row, res) ==
  LET tl == c_unwrap(TL, t, res) IN
  /\ ~panicked
  /\ res.ok => Room
  /\ stdout' = queue(stdout, MoveTo(col, row), res)
  /\ Store(tl)
  /\ call' = Returned(t, "crossterm_cursor_position_set",
                      IF res.ok THEN "ok" ELSE "fail", r(tl, t), <<col, row>>)
  /\ UNCHANGED <<mem, oom, panicked, strings, events>>

crossterm_event_push_keyboard_enhancement_flags(t, flags, res) ==
  /\ ~panicked
  /\ IF ~from_bits_is_some(flags)
     THEN \* from_bits(flags).unwrap() on None
          /\ panicked' = TRUE
          /\ call' = Returned(t, "crossterm_event_push_keyboard_enhancement_flags",
                              "panic", 0, flags)
          /\ UNCHANGED <<RESULT, LAST_ERROR, stdout>>
     ELSE LET tl == c_unwrap(TL, t, res) IN
          /\ res.ok => Room
          /\ stdout' = queue(stdout, PushKeyboardEnhancementFlags(flags), res)
          /\ Store(tl)
          /\ call' = Returned(t, "crossterm_event_push_keyboard_enhancement_flags",
                              IF res.ok THEN "ok" ELSE "fail", r(tl, t), flags)
          /\ UNCHANGED panicked
  /\ UNCHANGED <<mem, oom, strings, events>>

crossterm_style_print_char(t, c, res) ==
  /\ ~panicked
  /\ IF from_u32_is_some(c)
     THEN LET tl == c_unwrap(TL, t, res) IN
          /\ res.ok => Room
          /\ stdout' = queue(stdout, Utf8(c), res)
          /\ Store(tl)
          /\ call' = Returned(t, "crossterm_style_print_char",
                              IF res.ok THEN "ok" ELSE "fail", r(tl, t), c)
     ELSE /\ Store(set_last_error(TL, t,
                     anyhow(PfxUnableToConvert \o Decimal(c) \o SfxToValidChar)))
          /\ call' = Returned(t, "crossterm_style_print_char", "fail", -1, c)
          /\ UNCHANGED stdout
  /\ UNCHANGED <<mem, oom, panicked, strings, events>>

\* a bug: the flush writes the buffer out and keeps it
flush_keeping(out) == [written |-> Concat(out), stdout |-> out]

\* std::io::stdout().flush() returning Ok: the buffer is written out, in
\* order; the bytes written and the buffer it leaves
flush(out) == [written |-> Concat(out), stdout |-> <<>>]

\* arg is the bytes the flush wrote to the terminal
crossterm_flush(t, res) ==
  LET tl == IF res.ok THEN TL ELSE set_last_error(TL, t, res.err) IN
  /\ ~panicked
  /\ stdout' = IF res.ok THEN flush(stdout).stdout ELSE stdout
  /\ Store(tl)
  /\ call' = Returned(t, "crossterm_flush", IF res.ok THEN "ok" ELSE "fail",
                      r(tl, t),
                      IF res.ok THEN flush(stdout).written ELSE <<>>)
  /\ UNCHANGED <<mem, oom, panicked, strings, events>>

----------------------------------------------------------------------------
(* The specification: any thread makes any call, with any outcome of the   *)
(* delegated operation and of the allocator.                               *)

\* the arguments the calls are made with
PollTimeouts == {<<U64Zero, 0>>, <<U64Max, 999999999>>, <<U64Max, 1000000000>>}
Coords == {0}
FlagArgs == {1, 16}
CharArgs == {111, 55296, 1114112}

Next ==
  \E t \in Threads :
    \/ take_last_error_call(t)
    \/ crossterm_has_error_call(t)
    \/ crossterm_clear_last_error(t)
    \/ crossterm_last_error_length_call(t)
    \/ \E m \in Addrs \cup {NULL} : crossterm_last_error_message(t, m)
    \/ \E s \in Addrs \cup {NULL} : crossterm_free_c_char(t, s)
    \/ \E timeout \in PollTimeouts, res \in PollResults :
         crossterm_event_poll(t, timeout[1], timeout[2], res)
    \/ \E col \in Coords, row \in Coords, res \in UnitResults :
         crossterm_cursor_position_set(t, col, row, res)
    \/ \E flags \in FlagArgs, res \in UnitResults :
         crossterm_event_push_keyboard_enhancement_flags(t, flags, res)
    \/ \E c \in CharArgs, res \in UnitResults :
         crossterm_style_print_char(t, c, res)
    \/ \E res \in UnitResults : crossterm_flush(t, res)

Spec == Init /\ [][Next]_vars

----------------------------------------------------------------------------
(* Two threads, each making failing and succeeding calls and reading the   *)
(* error channel; the allocator does not fail.                             *)

InitMT == InitOf(ThreadsMT) /\ strings = EmptyStrings /\ call = NoCall(<<>>)

NextMT ==
  \E t \in ThreadsMT :
    \/ crossterm_has_error_call(t)
    \/ crossterm_last_error_length_call(t)
    \/ \E m \in Addrs : crossterm_last_error_message(t, m)
    \/ \E s \in Addrs : crossterm_free_c_char(t, s)
    \/ \E col \in Coords, row \in Coords, res \in UnitResults :
         crossterm_cursor_position_set(t, col, row, res)

SpecMT == InitMT /\ [][NextMT]_vars

----------------------------------------------------------------------------------------------------------------------------------------
(* convert_string_to_c_char applied once to a text of up to MaxLen         *)
(* characters, with every outcome of the allocator; the caller then frees  *)
(* the buffer.                                                             *)

\* the characters texts are made of, as UTF-8: NUL, "k", "o", U+00E9
Chars == {<<0>>, <<107>>, <<111>>, <<195, 169>>}

\* the texts of up to MaxLen characters
Texts == UNION {{Concat(cs) : cs \in [1..n -> Chars]} : n \in 0..MaxLen}

InitConvert ==
  /\ InitOf(Threads)
  /\ strings = EmptyStrings
  /\ \E string \in Texts : call = NoCall(string)

\* the call convert_string_to_c_char(string) on thread t, string being the
\* text drawn initially
convert_string_to_c_char_call(t, m) ==
  LET string == call.arg
      c == convert_string_to_c_char(TL, mem, t, string, m)
  IN /\ ~panicked
     /\ call.op = "none"
     /\ m \in MallocResults
     /\ Store(c.tl)
     /\ mem' = c.mem
     /\ oom' = OomAfter(c, m)
     /\ call' = ReturnedBuf(t, "convert_string_to_c_char", c.ret,
                            [string |-> string, m |-> m], c.buf)
     /\ UNCHANGED <<stdout, panicked, strings, events>>

NextConvert ==
  \E t \in Threads :
    \/ \E m \in Addrs \cup {NULL} : convert_string_to_c_char_call(t, m)
    \/ \E s \in Addrs \cup {NULL} : crossterm_free_c_char(t, s)

SpecConvert == InitConvert /\ [][NextConvert]_vars

----------------------------------------------------------------------------
(* The colors table and the sleep.                                         *)

\* COLORS as built with the feature docsrs:
\* [{"error": "Feature `docsrs` is enabled. COLORS json not available."}]
COLORS ==
  <<91, 123, 34, 101, 114, 114, 111, 114, 34, 58, 32, 34, 70, 101, 97, 116,
    117, 114, 101, 32, 96, 100, 111, 99, 115, 114, 115, 96, 32, 105, 115,
    32, 101, 110, 97, 98, 108, 101, 100, 46, 32, 67, 79, 76, 79, 82, 83,
    32, 106, 115, 111, 110, 32, 110, 111, 116, 32, 97, 118, 97, 105, 108,
    97, 98, 108, 101, 46, 34, 125, 93>>

\* a bug: the call goes through the status as a wrapper's would
crossterm_colors_resetting(t, m) ==
  LET c == convert_string_to_c_char(c_unwrap(TL, t, Ok(0)), mem, t, COLORS, m)
  IN /\ ~panicked
     /\ m \in MallocResults
     /\ Store(c.tl)
     /\ mem' = c.mem
     /\ oom' = OomAfter(c, m)
     /\ call' = ReturnedBuf(t, "crossterm_colors", c.ret, COLORS, c.buf)
     /\ UNCHANGED <<stdout, panicked, strings, events>>

\* arg is COLORS.to_string()
crossterm_colors(t, m) ==
  LET c == convert_string_to_c_char(TL, mem, t, COLORS, m)
  IN /\ ~panicked
     /\ m \in MallocResults
     /\ Store(c.tl)
     /\ mem' = c.mem
     /\ oom' = OomAfter(c, m)
     /\ call' = ReturnedBuf(t, "crossterm_colors", c.ret, COLORS, c.buf)
     /\ UNCHANGED <<stdout, panicked, strings, events>>

\* x as u64 of a float x: NaN and the negatives give 0 (the values beyond
\* u64::MAX, which saturate, are not reached by SleepArgs)
as_u64(x) == IF x < 0 THEN 0 ELSE x

\* the whole seconds crossterm_sleep is called with
SleepArgs == {-1, 0, 1}

\* arg is the nanoseconds slept: (seconds * 1e9).round() as u64
crossterm_sleep(t, seconds) ==
  /\ ~panicked
  /\ call' = Returned(t, "crossterm_sleep", "none", 0, as_u64(seconds * 1000000000))
  /\ UNCHANGED <<RESULT, LAST_ERROR, mem, stdout, oom, panicked, strings, events>>

----------------------------------------------------------------------------
(* Reading events.                                                         *)

\* number of unread events the terminal holds
MaxEvents == 1

\* the results crossterm::event::read may have
ReadResults == {Ok(FocusGained)} \cup {Err(e) : e \in IoErrors}

\* the terminal gains the focus while no call is running: an event to read
terminal_event ==
  /\ ~panicked
  /\ Len(events) < MaxEvents
  /\ events' = Append(events, FocusGained)
  /\ UNCHANGED <<RESULT, LAST_ERROR, mem, stdout, oom, panicked, strings, call>>

\* a lowercase hexadecimal digit
HexDigit(d) == IF d < 10 THEN 48 + d ELSE 87 + d

\* serde_json's escape of one byte of a string
JsonEscape(b) ==
  IF b = 34 THEN <<92, 34>>
  ELSE IF b = 92 THEN <<92, 92>>
  ELSE IF b = 8 THEN <<92, 98>>
  ELSE IF b = 12 THEN <<92, 102>>
  ELSE IF b = 10 THEN <<92, 110>>
  ELSE IF b = 13 THEN <<92, 114>>
  ELSE IF b = 9 THEN <<92, 116>>
  ELSE IF b < 32 THEN <<92, 117, 48, 48, HexDigit(b \div 16), HexDigit(b % 16)>>
  ELSE <<b>>

\* a text as a JSON string: quoted, its bytes escaped
JsonString(text) ==
  <<34>> \o Concat([i \in 1..Len(text) |-> JsonEscape(text[i])]) \o <<34>>

\* the message handed over as it is, not as a JSON object
json_error_bare(msg) == msg

\* serde_json::json!({"error": msg}).to_string()
json_error(msg) == ErrorKey \o JsonString(msg) \o <<125>>

\* serde_json::to_string(&evt) of an event that is a unit variant
to_string_event(evt) == JsonString(evt)

\* format!("{:?}", err) of an anyhow::Error (no backtrace captured): the
\* outermost message, then its causes, numbered when more than one
DebugFmt(err) ==
  IF Len(err) = 1 THEN err[1]
  ELSE err[1] \o CausedBy \o
       Concat([i \in 1..(Len(err) - 1) |->
                 IF Len(err) = 2 THEN <<10, 32, 32, 32, 32>> \o err[2]
                 ELSE <<10, 32, 32, 32, 32>> \o Decimal(i - 1) \o <<58, 32>>
                        \o err[i + 1]])

\* crossterm::event::read returns the oldest event not read yet; with none
\* there it blocks until the terminal gives one (or fails) and returns that.
\* arg is what crossterm::event::read returned; outcome tells whether the
\* call had to wait for the terminal, polled whether the thread's call before
\* it was a crossterm_event_poll that returned 1
crossterm_event_read(t, res, m) ==
  LET string == IF res.ok THEN to_string_event(res.val)
                ELSE json_error(PfxReadWrong \o DebugFmt(res.err))
      c == convert_string_to_c_char(TL, mem, t, string, m)
  IN /\ ~panicked
     /\ m \in MallocResults
     /\ events # <<>> => res = Ok(Head(events))
     /\ events' = IF events # <<>> THEN Tail(events) ELSE events
     /\ Store(c.tl)
     /\ mem' = c.mem
     /\ oom' = OomAfter(c, m)
     /\ call' = [ReturnedBuf(t, "crossterm_event_read", c.ret, res, c.buf)
                   EXCEPT !.outcome = IF events # <<>> THEN "ready"
                                      ELSE "waited"]
                 @@ [polled |-> call.op = "crossterm_event_poll" /\ call.ret = 1]
     /\ UNCHANGED <<stdout, panicked, strings>>

\* a host program that polls for and reads events and looks at the error
\* channel in between
NextEvents ==
  \E t \in Threads :
    \/ crossterm_has_error_call(t)
    \/ crossterm_clear_last_error(t)
    \/ crossterm_last_error_length_call(t)
    \/ \E m \in Addrs \cup {NULL} : crossterm_last_error_message(t, m)
    \/ \E s \in Addrs \cup {NULL} : crossterm_free_c_char(t, s)
    \/ \E res \in PollResults : crossterm_event_poll(t, U64Zero, 0, res)
    \/ \E res \in ReadResults, m \in Addrs \cup {NULL} :
         crossterm_event_read(t, res, m)
    \/ terminal_event

SpecEvents == Init /\ [][NextEvents]_vars

\* a host program that polls, reads events, fetches the colors table and
\* sleeps, without looking at the error channel
NextIdle ==
  \E t \in Threads :
    \/ \E s \in Addrs \cup {NULL} : crossterm_free_c_char(t, s)
    \/ \E res \in PollResults : crossterm_event_poll(t, U64Zero, 0, res)
    \/ \E res \in ReadResults, m \in Addrs \cup {NULL} :
         crossterm_event_read(t, res, m)
    \/ \E m \in Addrs \cup {NULL} : crossterm_colors(t, m)
    \/ \E seconds \in SleepArgs : crossterm_sleep(t, seconds)
    \/ terminal_event

SpecIdle == Init /\ [][NextIdle]_vars

----------------------------------------------------------------------------
(* The wrappers that ask the terminal a question.                          *)

\* a default that is not zero
default_u16_u16_ones == <<1, 1>>

\* <(u16, u16)>::default()
default_u16_u16 == <<0, 0>>

\* bool::default()
default_bool == FALSE

\* the results crossterm::cursor::position may have
PositionResults == {Ok(<<3, 7>>)} \cup {Err(e) : e \in IoErrors}

\* the results crossterm::terminal::size may have
SizeResults == {Ok(<<80, 24>>)} \cup {Err(e) : e \in IoErrors}

\* the results crossterm::terminal::is_raw_mode_enabled may have
RawModeResults == {Ok(TRUE), Ok(FALSE)} \cup {Err(e) : e \in IoErrors}

\* arg is what the call wrote to *col and *row
crossterm_cursor_position(t, res) ==
  LET tl == c_unwrap(TL, t, res) IN
  /\ ~panicked
  /\ Store(tl)
  /\ call' = Returned(t, "crossterm_cursor_position",
                      IF res.ok THEN "ok" ELSE "fail", r(tl, t),
                      c_unwrap_value(res, default_u16_u16))
  /\ UNCHANGED <<mem, stdout, oom, panicked, strings, events>>

\* arg is what the call wrote to *width and *height
crossterm_terminal_size(t, res) ==
  LET tl == c_unwrap(TL, t, res) IN
  /\ ~panicked
  /\ Store(tl)
  /\ call' = Returned(t, "crossterm_terminal_size",
                      IF res.ok THEN "ok" ELSE "fail", r(tl, t),
                      c_unwrap_value(res, default_u16_u16))
  /\ UNCHANGED <<mem, stdout, oom, panicked, strings, events>>

\* ret is the bool returned, as the byte 1 or 0
crossterm_terminal_is_raw_mode_enabled(t, res) ==
  LET tl == c_unwrap(TL, t, res) IN
  /\ ~panicked
  /\ Store(tl)
  /\ call' = Returned(t, "crossterm_terminal_is_raw_mode_enabled",
                      IF res.ok THEN "ok" ELSE "fail",
                      IF c_unwrap_value(res, default_bool) THEN 1 ELSE 0, res)
  /\ UNCHANGED <<mem, stdout, oom, panicked, strings, events>>

\* a host program that asks the terminal for the cursor position, the size
\* and the raw mode, and reads the error channel
NextQueries ==
  \E t \in Threads :
    \/ crossterm_has_error_call(t)
    \/ crossterm_clear_last_error(t)
    \/ \E m \in Addrs \cup {NULL} : crossterm_last_error_message(t, m)
    \/ \E s \in Addrs \cup {NULL} : crossterm_free_c_char(t, s)
    \/ \E res \in PositionResults : crossterm_cursor_position(t, res)
    \/ \E res \in SizeResults : crossterm_terminal_size(t, res)
    \/ \E res \in RawModeResults : crossterm_terminal_is_raw_mode_enabled(t, res)

SpecQueries == Init /\ [][NextQueries]_vars

----------------------------------------------------------------------------
(* The wrappers that take a C string from the caller.                      *)

\* std::ffi::CStr::from_ptr(s): the bytes at s before the terminator
CStr_from_ptr(strs, s) == CStrRead(strs[s])

\* a UTF-8 continuation byte
Continuation(b) == b >= 128 /\ b <= 191

RECURSIVE from_utf8_is_ok(_)
\* std::str::from_utf8(v).is_ok(): v is well-formed UTF-8 (no overlong
\* forms, no surrogates, nothing above U+10FFFF)
from_utf8_is_ok(v) ==
  IF v = <<>> THEN TRUE
  ELSE LET first == v[1]
           rest(w) == from_utf8_is_ok(SubSeq(v, w + 1, Len(v)))
       IN IF first < 128 THEN rest(1)
          ELSE IF first >= 194 /\ first <= 223
               THEN Len(v) >= 2 /\ Continuation(v[2]) /\ rest(2)
          ELSE IF first >= 224 /\ first <= 239
               THEN /\ Len(v) >= 3
                    /\ \/ first = 224 /\ v[2] >= 160 /\ v[2] <= 191
                       \/ first >= 225 /\ first <= 236 /\ Continuation(v[2])
                       \/ first = 237 /\ v[2] >= 128 /\ v[2] <= 159
                       \/ first >= 238 /\ Continuation(v[2])
                    /\ Continuation(v[3])
                    /\ rest(3)
          ELSE IF first >= 240 /\ first <= 244
               THEN /\ Len(v) >= 4
                    /\ \/ first = 240 /\ v[2] >= 144 /\ v[2] <= 191
                       \/ first >= 241 /\ first <= 243 /\ Continuation(v[2])
                       \/ first = 244 /\ v[2] >= 128 /\ v[2] <= 143
                    /\ Continuation(v[3])
                    /\ Continuation(v[4])
                    /\ rest(4)
          ELSE FALSE

\* CStr::to_str taking the bytes as they are, valid or not
to_str_unchecked(c_str) == Ok(c_str)

\* CStr::to_str(): the text, when the bytes are valid UTF-8
to_str(c_str) == IF from_utf8_is_ok(c_str) THEN Ok(c_str) ELSE Err(None)

\* what crossterm::style::Print(string) writes: the text itself
Print_command(string) == string

\* what crossterm::terminal::SetTitle(string) writes: ESC ] 0 ; string BEL
SetTitle(string) == <<27, 93, 48, 59>> \o string \o <<7>>

\* arg is the pointer given
crossterm_style_print_string(t, s, res) ==
  /\ ~panicked
  /\ IF s = NULL
     THEN LET tl == set_last_error([TL EXCEPT !.RESULT[t] = -1], t,
                                   anyhow(MsgNullPrint)) IN
          /\ Store(tl)
          /\ call' = Returned(t, "crossterm_style_print_string", "fail",
                              r(tl, t), s)
          /\ UNCHANGED stdout
     ELSE LET c_str == CStr_from_ptr(strings, s)
              string == to_str(c_str)
          IN IF string.ok
             THEN LET tl == c_unwrap(TL, t, res) IN
                  /\ res.ok => Room
                  /\ stdout' = queue(stdout, Print_command(string.val), res)
                  /\ Store(tl)
                  /\ call' = Returned(t, "crossterm_style_print_string",
                                      IF res.ok THEN "ok" ELSE "fail",
                                      r(tl, t), s)
             ELSE LET tl == set_last_error([TL EXCEPT !.RESULT[t] = -1], t,
                                           anyhow(MsgBadUtf8Print)) IN
                  /\ Store(tl)
                  /\ call' = Returned(t, "crossterm_style_print_string",
                                      "fail", r(tl, t), s)
                  /\ UNCHANGED stdout
  /\ UNCHANGED <<mem, oom, panicked, strings, events>>

\* the same call under its second exported name
crossterm_style_print(t, s, res) ==
  /\ crossterm_style_print_string(t, s, res)
  /\ UNCHANGED <<mem, oom, panicked, strings, events>>

\* arg is the pointer given
crossterm_terminal_title(t, title, res) ==
  /\ ~panicked
  /\ IF title = NULL
     THEN LET tl == set_last_error([TL EXCEPT !.RESULT[t] = -1], t,
                                   anyhow(MsgNullTitle)) IN
          /\ Store(tl)
          /\ call' = Returned(t, "crossterm_terminal_title", "fail",
                              r(tl, t), title)
          /\ UNCHANGED stdout
     ELSE LET c_str == CStr_from_ptr(strings, title)
              string == to_str(c_str)
          IN IF string.ok
             THEN LET tl == c_unwrap(TL, t, res) IN
                  /\ res.ok => Room
                  /\ stdout' = queue(stdout, SetTitle(string.val), res)
                  /\ Store(tl)
                  /\ call' = Returned(t, "crossterm_terminal_title",
                                      IF res.ok THEN "ok" ELSE "fail",
                                      r(tl, t), title)
             ELSE LET tl == set_last_error([TL EXCEPT !.RESULT[t] = -1], t,
                                           anyhow(MsgBadUtf8Title)) IN
                  /\ Store(tl)
                  /\ call' = Returned(t, "crossterm_terminal_title",
                                      "fail", r(tl, t), title)
                  /\ UNCHANGED stdout
  /\ UNCHANGED <<mem, oom, panicked, strings, events>>

\* the C strings a caller is let to own: "ok", "e" with an acute accent,
\* and the single byte 0xFF, which no UTF-8 text contains
CStrings == {<<111, 107, 0>>, <<195, 169, 0>>, <<255, 0>>}

InitStrings ==
  /\ InitOf(Threads)
  /\ strings \in [CallerAddrs -> CStrings]
  /\ call = NoCall(<<>>)

\* a host program that prints and sets titles from its own strings
NextStrings ==
  \E t \in Threads :
    \/ crossterm_has_error_call(t)
    \/ crossterm_clear_last_error(t)
    \/ \E s \in CallerAddrs \cup {NULL}, res \in UnitResults :
         crossterm_style_print_string(t, s, res)
    \/ \E s \in CallerAddrs \cup {NULL}, res \in UnitResults :
         crossterm_style_print(t, s, res)
    \/ \E title \in CallerAddrs \cup {NULL}, res \in UnitResults :
         crossterm_terminal_title(t, title, res)
    \/ \E res \in UnitResults : crossterm_flush(t, res)

SpecStrings == InitStrings /\ [][NextStrings]_vars

----------------------------------------------------------------------------
(* convert_string_to_c_char applied to a text, and the error it may have   *)
(* left read back through the error channel.                               *)

\* longest rendered message crossterm_last_error_message is asked for here
MaxMsg == 64

\* crossterm_last_error_message, called while the message to render is short
crossterm_last_error_message_short(t, m) ==
  /\ Len(last_error_text(TL, t)) <= MaxMsg
  /\ crossterm_last_error_message(t, m)

NextNested ==
  \E t \in Threads :
    \/ \E m \in Addrs \cup {NULL} : convert_string_to_c_char_call(t, m)
    \/ crossterm_has_error_call(t)
    \/ \E m \in Addrs \cup {NULL} : crossterm_last_error_message_short(t, m)
    \/ \E s \in Addrs \cup {NULL} : crossterm_free_c_char(t, s)

SpecNested == InitConvert /\ [][NextNested]_vars

----------------------------------------------------------------------------
(* Commands queued around one another and flushed.                         *)

\* what crossterm::terminal::BeginSynchronizedUpdate writes: ESC [ ? 2026 h
BeginSynchronizedUpdate == <<27, 91, 63, 50, 48, 50, 54, 104>>

\* what crossterm::terminal::EndSynchronizedUpdate writes: ESC [ ? 2026 l
EndSynchronizedUpdate == <<27, 91, 63, 50, 48, 50, 54, 108>>

\* the brackets of a synchronized update go around other commands: room is
\* left for them behind a full buffer
RoomAround == Len(stdout) < MaxQueue + 1

crossterm_terminal_begin_synchronized_update(t, res) ==
  LET tl == c_unwrap(TL, t, res) IN
  /\ ~panicked
  /\ res.ok => RoomAround
  /\ stdout' = queue(stdout, BeginSynchronizedUpdate, res)
  /\ Store(tl)
  /\ call' = Returned(t, "crossterm_terminal_begin_synchronized_update",
                      IF res.ok THEN "ok" ELSE "fail", r(tl, t), <<>>)
  /\ UNCHANGED <<mem, oom, panicked, strings, events>>

crossterm_terminal_end_synchronized_update(t, res) ==
  LET tl == c_unwrap(TL, t, res) IN
  /\ ~panicked
  /\ res.ok => RoomAround
  /\ stdout' = queue(stdout, EndSynchronizedUpdate, res)
  /\ Store(tl)
  /\ call' = Returned(t, "crossterm_terminal_end_synchronized_update",
                      IF res.ok THEN "ok" ELSE "fail", r(tl, t), <<>>)
  /\ UNCHANGED <<mem, oom, panicked, strings, events>>

\* a host program that draws inside synchronized updates and flushes
NextOutput ==
  \E t \in Threads :
    \/ \E col \in Coords, row \in Coords, res \in UnitResults :
         crossterm_cursor_position_set(t, col, row, res)
    \/ \E c \in CharArgs, res \in UnitResults :
         crossterm_style_print_char(t, c, res)
    \/ \E res \in UnitResults :
         crossterm_terminal_begin_synchronized_update(t, res)
    \/ \E res \in UnitResults :
         crossterm_terminal_end_synchronized_update(t, res)
    \/ \E res \in UnitResults : crossterm_flush(t, res)

SpecOutput == Init /\ [][NextOutput]_vars

----------------------------------------------------------------------------
(* The claims.                                                             *)

\* the exported operations that wrap a delegated crossterm or stdout operation
WrapperOps ==
  {"crossterm_event_poll", "crossterm_cursor_position_set",
   "crossterm_event_push_keyboard_enhancement_flags",
   "crossterm_style_print_char", "crossterm_flush"}

\* the exported operations whose return value is a status integer
StatusOps ==
  {"crossterm_cursor_position_set",
   "crossterm_event_push_keyboard_enhancement_flags",
   "crossterm_style_print_char", "crossterm_flush", "crossterm_free_c_char"}

\* the text has an embedded 0 byte
HasNul(string) == \E i \in 1..Len(string) : string[i] = 0

\* C1: whenever a wrapper operation has failed, right after the call
\* crossterm_has_error() is true and the caller's RESULT is -1.
C1_FailureSetsErrorAndStatus ==
  (call.op \in WrapperOps /\ call.outcome = "fail")
    => /\ crossterm_has_error(TL, call.thread)
       /\ RESULT[call.thread] = -1

\* C2: whenever a wrapper operation has succeeded, right after the call
\* crossterm_has_error() is false and the caller's RESULT is 0.
C2_SuccessClearsError ==
  (call.op \in WrapperOps /\ call.outcome = "ok")
    => /\ ~crossterm_has_error(TL, call.thread)
       /\ RESULT[call.thread] = 0

\* C3 as stated: crossterm_last_error_message() called with a Last Error
\* held returns the rendered message of that error; called again right
\* after, it returns the fallback message; a second take_last_error() right
\* after a first returns None.
C3_ReadAndClearAlways ==
  [][/\ (call'.op = "crossterm_last_error_message"
           /\ LAST_ERROR[call'.thread] # None)
        => /\ call'.ret # NULL
           /\ CStrRead(call'.buf) = Render(LAST_ERROR[call'.thread])
     /\ (call'.op = "crossterm_last_error_message" /\ call'.again
           /\ call.arg # MsgNoError)
        => /\ call'.ret # NULL
           /\ CStrRead(call'.buf) = MsgNoError
     /\ (call'.op = "take_last_error" /\ call'.again) => call'.ret = 0
    ]_vars

\* C3 as amended: two consecutive crossterm_last_error_message() calls
\* never return the same failure message twice; when the buffer is built
\* (the pointer returned is not null) the first holds the rendered message
\* of the error held and, the first having been built, the second holds the
\* fallback message; a second take_last_error() right after a first
\* returns None.
C3_ReadAndClear ==
  [][/\ (call'.op = "crossterm_last_error_message"
           /\ LAST_ERROR[call'.thread] # None /\ call'.ret # NULL)
        => CStrRead(call'.buf) = Render(LAST_ERROR[call'.thread])
     /\ (call'.op = "crossterm_last_error_message" /\ call'.again
           /\ call.arg # MsgNoError /\ call'.ret # NULL)
        => /\ CStrRead(call'.buf) # call.arg
           /\ call.ret # NULL => CStrRead(call'.buf) = MsgNoError
     /\ (call'.op = "take_last_error" /\ call'.again) => call'.ret = 0
    ]_vars

\* C3 witness: after a failed call (RESULT is -1) the second of two
\* consecutive crossterm_last_error_message() calls returned the fallback.
C3_Witness ==
  /\ call.op = "crossterm_last_error_message"
  /\ call.again
  /\ call.ret # NULL
  /\ CStrRead(call.buf) = MsgNoError
  /\ RESULT[call.thread] = -1

\* C4: a call made by one thread leaves RESULT and LAST_ERROR of every
\* other thread as they were, and the message a thread is handed by
\* crossterm_last_error_message() renders the error that thread held.
C4_ThreadLocal ==
  [][/\ \A u \in DOMAIN RESULT :
          call'.thread # u
            => RESULT'[u] = RESULT[u] /\ LAST_ERROR'[u] = LAST_ERROR[u]
     /\ (call'.op = "crossterm_last_error_message" /\ call'.ret # NULL)
          => CStrRead(call'.buf) = last_error_text(TL, call'.thread)
    ]_vars

\* C4 witness: both threads hold a failure of their own, and thread 1 has
\* just been handed the message of its own earlier failure.
C4_Witness ==
  /\ call.op = "crossterm_last_error_message"
  /\ call.thread = 1
  /\ CStrRead(call.buf) = EBADF
  /\ LAST_ERROR[1] = None
  /\ LAST_ERROR[2] = anyhow(ENOTTY)
  /\ RESULT[1] = -1 /\ RESULT[2] = -1

\* C5: no call panics, whatever its arguments.
C5_NoPanic == ~panicked

\* C6: for a text without an embedded 0 byte, malloc not returning null,
\* the pointer returned is not null and the bytes of the buffer up to the
\* first 0 are the bytes of the text.
C6_RoundTrip ==
  (call.op = "convert_string_to_c_char" /\ ~HasNul(call.arg.string)
     /\ call.arg.m # NULL)
    => /\ call.ret # NULL
       /\ CStrRead(call.buf) = call.arg.string

\* C6 witness: the text "o", U+00E9, "k" was converted into a buffer.
C6_Witness ==
  /\ call.op = "convert_string_to_c_char"
  /\ call.arg.string = <<111, 195, 169, 107>>
  /\ call.ret # NULL

\* C7: for a text with an embedded 0 byte the pointer returned is null,
\* nothing is allocated, and a Last Error is held afterwards.
C7_EmbeddedNul ==
  [][(call'.op = "convert_string_to_c_char" /\ HasNul(call'.arg.string))
       => /\ call'.ret = NULL
          /\ call'.buf = <<>>
          /\ mem' = mem
          /\ crossterm_has_error([RESULT |-> RESULT', LAST_ERROR |-> LAST_ERROR'],
                                 call'.thread)
    ]_vars

\* C7 witness: the text "o", NUL, "k" was refused.
C7_Witness ==
  /\ call.op = "convert_string_to_c_char"
  /\ call.arg.string = <<111, 0, 107>>
  /\ call.ret = NULL
  /\ crossterm_has_error(TL, call.thread)

\* C8: crossterm_free_c_char(null) returns -1 and a Last Error is held
\* afterwards; crossterm_free_c_char(p) of an allocated p returns 0,
\* releases p and leaves Last Error as it was.
C8_Free ==
  [][call'.op = "crossterm_free_c_char"
       => IF call'.arg = NULL
          THEN /\ call'.ret = -1
               /\ LAST_ERROR'[call'.thread] # None
               /\ mem' = mem
          ELSE /\ call'.ret = 0
               /\ ~mem'[call'.arg]
               /\ LAST_ERROR' = LAST_ERROR
    ]_vars

\* C8 witness: a buffer was freed while a Last Error was held.
C8_Witness ==
  /\ call.op = "crossterm_free_c_char"
  /\ call.arg # NULL
  /\ call.ret = 0
  /\ ~mem[call.arg]
  /\ LAST_ERROR[call.thread] # None

\* C9: crossterm_event_poll returns 1 when the poll returned Ok(true), 0
\* when it returned Ok(false) and -1 when it returned Err.
C9_PollResult ==
  (call.op = "crossterm_event_poll" /\ call.outcome # "panic")
    => call.ret = (IF ~call.arg.ok THEN -1 ELSE IF call.arg.val THEN 1 ELSE 0)

\* C10: an operation returning a status integer returns 0 exactly when it
\* succeeded and -1 exactly when it failed.
C10_StatusIsOwnOutcome ==
  (call.op \in StatusOps /\ call.outcome \in {"ok", "fail"})
    => call.ret = (IF call.outcome = "ok" THEN 0 ELSE -1)

----------------------------------------------------------------------------
\* the exported operations that take a C string from the caller
StringOps == {"crossterm_style_print_string", "crossterm_terminal_title"}

\* the pointer is null, or the bytes at it are not valid UTF-8
BadString(s) == s = NULL \/ ~from_utf8_is_ok(CStr_from_ptr(strings, s))

\* the message the source gives for a bad string handed to op
BadStringMsg(op, s) ==
  IF op = "crossterm_style_print_string"
  THEN (IF s = NULL THEN MsgNullPrint ELSE MsgBadUtf8Print)
  ELSE (IF s = NULL THEN MsgNullTitle ELSE MsgBadUtf8Title)

\* C11: crossterm_style_print_string, crossterm_style_print and
\* crossterm_terminal_title, given a null pointer or bytes that are not valid
\* UTF-8, record a Last Error of their own in place of whatever was held,
\* set the status to -1, return -1 and queue nothing to stdout; the caller's
\* strings are neither freed nor modified.
C11_BadStringRejected ==
  [][(call'.op \in StringOps /\ BadString(call'.arg)) =>
       /\ LAST_ERROR'[call'.thread] = anyhow(BadStringMsg(call'.op, call'.arg))
       /\ RESULT'[call'.thread] = -1
       /\ call'.ret = -1
       /\ stdout' = stdout
       /\ strings' = strings
       /\ mem' = mem]_vars

\* a title that is not valid UTF-8 was refused while a write was queued
C11_Witness ==
  /\ call.op = "crossterm_terminal_title"
  /\ call.arg # NULL
  /\ strings[call.arg] = <<255, 0>>
  /\ call.ret = -1
  /\ LAST_ERROR[call.thread] = anyhow(MsgBadUtf8Title)
  /\ stdout = <<SetTitle(<<111, 107>>)>>

----------------------------------------------------------------------------
\* the call failed through c_unwrap: the delegated operation returned Err
FailedThroughCUnwrap(c) ==
  /\ c.outcome = "fail"
  /\ \/ c.op \in {"crossterm_event_poll", "crossterm_cursor_position_set",
                  "crossterm_event_push_keyboard_enhancement_flags"}
     \/ c.op = "crossterm_style_print_char" /\ from_u32_is_some(c.arg)

\* C12 as stated: a wrapper that fails through c_unwrap returns status -1
\* and leaves crossterm_has_error() true, holding the delegate's error; a
\* crossterm_last_error_message() called while that error is held returns a
\* non-null buffer of more than one byte that ends in 0 and reads as the
\* rendered cause chain; crossterm_free_c_char on that buffer returns 0.
C12_RetrievalAlways ==
  [][/\ FailedThroughCUnwrap(call')
          => /\ call'.ret = -1
             /\ LAST_ERROR'[call'.thread] \in IoErrors
             /\ call'.op = "crossterm_event_poll"
                  => LAST_ERROR'[call'.thread] = call'.arg.err
     /\ (call'.op = "crossterm_last_error_message"
           /\ LAST_ERROR[call'.thread] \in IoErrors)
          => /\ call'.ret # NULL
             /\ Len(call'.buf) > 1
             /\ call'.buf[Len(call'.buf)] = 0
             /\ CStrRead(call'.buf) = Render(LAST_ERROR[call'.thread])
     /\ (call'.op = "crossterm_free_c_char" /\ call'.thread = call.thread
           /\ call.op = "crossterm_last_error_message"
           /\ call.ret # NULL /\ call'.arg = call.ret)
          => call'.ret = 0
    ]_vars

\* C12 as amended: the same, the message buffer being as described when
\* libc::malloc gave one (the pointer returned is not null).
C12_Retrieval ==
  [][/\ FailedThroughCUnwrap(call')
          => /\ call'.ret = -1
             /\ LAST_ERROR'[call'.thread] \in IoErrors
             /\ call'.op = "crossterm_event_poll"
                  => LAST_ERROR'[call'.thread] = call'.arg.err
     /\ (call'.op = "crossterm_last_error_message"
           /\ LAST_ERROR[call'.thread] \in IoErrors /\ call'.ret # NULL)
          => /\ Len(call'.buf) > 1
             /\ call'.buf[Len(call'.buf)] = 0
             /\ CStrRead(call'.buf) = Render(LAST_ERROR[call'.thread])
     /\ (call'.op = "crossterm_free_c_char" /\ call'.thread = call.thread
           /\ call.op = "crossterm_last_error_message"
           /\ call.ret # NULL /\ call'.arg = call.ret)
          => call'.ret = 0
    ]_vars

\* C12 witness: after a delegate failed with "Bad file descriptor (os error
\* 9)", crossterm_last_error_message() handed out that text, terminated,
\* in a buffer the caller now owns; the status still reads -1
C12_Witness ==
  /\ call.op = "crossterm_last_error_message"
  /\ call.ret # NULL
  /\ mem[call.ret]
  /\ call.buf = Append(EBADF, 0)
  /\ RESULT[call.thread] = -1
  /\ ~crossterm_has_error(TL, call.thread)

----------------------------------------------------------------------------
\* the text is a JSON object whose single field is "error", holding a
\* string, and has no 0 byte in it
IsErrorObject(text) ==
  LET k == Len(ErrorKey)
      n == Len(text)
  IN /\ n >= k + 3
     /\ SubSeq(text, 1, k) = ErrorKey
     /\ text[k + 1] = 34
     /\ text[n - 1] = 34
     /\ text[n] = 125
     /\ \A i \in (k + 2)..(n - 2) :
          text[i] # 0 /\ (text[i] = 34 => text[i - 1] = 92)

\* {"error":"Something went wrong with crossterm_event_read(): Bad file
\* descriptor (os error 9)"}
JsonReadEBADF ==
  <<123, 34, 101, 114, 114, 111, 114, 34, 58, 34, 83, 111, 109, 101, 116, 104,
    105, 110, 103, 32, 119, 101, 110, 116, 32, 119, 114, 111, 110, 103, 32,
    119, 105, 116, 104, 32, 99, 114, 111, 115, 115, 116, 101, 114, 109, 95,
    101, 118, 101, 110, 116, 95, 114, 101, 97, 100, 40, 41, 58, 32, 66, 97,
    100, 32, 102, 105, 108, 101, 32, 100, 101, 115, 99, 114, 105, 112, 116,
    111, 114, 32, 40, 111, 115, 32, 101, 114, 114, 111, 114, 32, 57, 41, 34,
    125>>

\* C13 as stated: when crossterm::event::read fails, crossterm_event_read
\* returns a non-null buffer holding a JSON object whose single field
\* "error" is a text, and RESULT and LAST_ERROR are after the call what they
\* were before it.
C13_ReadFailureAlways ==
  [][(call'.op = "crossterm_event_read" /\ ~call'.arg.ok) =>
       /\ call'.ret # NULL
       /\ call'.buf # <<>>
       /\ call'.buf[Len(call'.buf)] = 0
       /\ IsErrorObject(SubSeq(call'.buf, 1, Len(call'.buf) - 1))
       /\ call'.arg.err = <<EBADF>> => call'.buf = Append(JsonReadEBADF, 0)
       /\ LAST_ERROR' = LAST_ERROR
       /\ RESULT' = RESULT]_vars

\* C13 as amended: when crossterm::event::read fails, crossterm_event_read
\* leaves RESULT as it was; when libc::malloc gives it a buffer it returns
\* the JSON object in it and leaves LAST_ERROR as it was; when libc::malloc
\* returns null it returns null and records "Unable to malloc for <the JSON
\* text>" as the Last Error.
C13_ReadFailure ==
  [][(call'.op = "crossterm_event_read" /\ ~call'.arg.ok) =>
       /\ RESULT' = RESULT
       /\ call'.ret # NULL =>
            /\ call'.buf[Len(call'.buf)] = 0
            /\ IsErrorObject(SubSeq(call'.buf, 1, Len(call'.buf) - 1))
            /\ call'.arg.err = <<EBADF>> => call'.buf = Append(JsonReadEBADF, 0)
            /\ LAST_ERROR' = LAST_ERROR
       /\ call'.ret = NULL =>
            /\ LAST_ERROR'[call'.thread] # None
            /\ SubSeq(LAST_ERROR'[call'.thread][1], 1, Len(PfxUnableToMalloc))
                 = PfxUnableToMalloc
            /\ IsErrorObject(SubSeq(LAST_ERROR'[call'.thread][1],
                                    Len(PfxUnableToMalloc) + 1,
                                    Len(LAST_ERROR'[call'.thread][1])))]_vars

\* C13 witness: a read that failed with "Bad file descriptor" returned a
\* buffer while the status and the error of an earlier failed poll
\* ("Inappropriate ioctl for device") were still in place
C13_Witness ==
  /\ call.op = "crossterm_event_read"
  /\ call.arg = Err(<<EBADF>>)
  /\ call.ret # NULL
  /\ LAST_ERROR[call.thread] = <<ENOTTY>>
  /\ RESULT[call.thread] = -1

----------------------------------------------------------------------------
\* C14 as stated: crossterm_last_error_message() called with no Last Error
\* held returns a non-null buffer holding the fallback text, and no Last
\* Error is held after it.
C14_FallbackAlways ==
  [][(call'.op = "crossterm_last_error_message"
        /\ LAST_ERROR[call'.thread] = None) =>
       /\ call'.ret # NULL
       /\ call'.buf = Append(MsgNoError, 0)
       /\ ~crossterm_has_error(TL', call'.thread)]_vars

\* C14 as amended: called with no Last Error held, when libc::malloc gives
\* it a buffer crossterm_last_error_message() returns the fallback text in
\* it and no Last Error is held after; when libc::malloc returns null it
\* returns null and "Unable to malloc for <the fallback text>" is held.
C14_Fallback ==
  [][(call'.op = "crossterm_last_error_message"
        /\ LAST_ERROR[call'.thread] = None) =>
       /\ call'.ret # NULL =>
            /\ call'.buf = Append(MsgNoError, 0)
            /\ ~crossterm_has_error(TL', call'.thread)
       /\ call'.ret = NULL =>
            LAST_ERROR'[call'.thread] = anyhow(PfxUnableToMalloc \o MsgNoError)
    ]_vars

\* C14 witness: with no failure so far (status 0, no allocation refused),
\* a crossterm_last_error_message() got the fallback text
C14_Witness ==
  /\ call.op = "crossterm_last_error_message"
  /\ ~call.again
  /\ call.ret # NULL
  /\ call.buf = Append(MsgNoError, 0)
  /\ RESULT[call.thread] = 0
  /\ ~crossterm_has_error(TL, call.thread)
  /\ oom = 0

----------------------------------------------------------------------------
\* C15: crossterm_last_error_length() returns 0 when no Last Error is held,
\* and otherwise the number of bytes of the rendered message plus one for
\* the terminator (33 for "Bad file descriptor (os error 9)").
C15_Length ==
  [][call'.op = "crossterm_last_error_length" =>
       /\ LAST_ERROR[call'.thread] = None => call'.ret = 0
       /\ LAST_ERROR[call'.thread] # None =>
            call'.ret = Len(Append(Render(LAST_ERROR[call'.thread]), 0))
       /\ LAST_ERROR[call'.thread] = <<EBADF>> => call'.ret = 33]_vars

\* C15 witness: the length of "Bad file descriptor (os error 9)" was asked
C15_Witness ==
  /\ call.op = "crossterm_last_error_length"
  /\ call.ret = 33
  /\ LAST_ERROR[call.thread] = <<EBADF>>

----------------------------------------------------------------------------
\* C16 as stated: crossterm_last_error_length() called with a Last Error
\* held consumes it: crossterm_has_error() is false after the call.
C16_LengthClears ==
  [][(call'.op = "crossterm_last_error_length"
        /\ LAST_ERROR[call'.thread] # None)
       => ~crossterm_has_error(TL', call'.thread)]_vars

\* C16 as amended: crossterm_last_error_length() only looks at the Last
\* Error: the error held before the call is held after it, so
\* crossterm_has_error() answers after the call what it answered before.
C16_LengthPeeks ==
  [][call'.op = "crossterm_last_error_length"
       => /\ LAST_ERROR' = LAST_ERROR
          /\ crossterm_has_error(TL', call'.thread)
               = crossterm_has_error(TL, call'.thread)]_vars

\* C16 witness: the second of two consecutive length queries still measured
\* an error, which is still held
C16_Witness ==
  /\ call.op = "crossterm_last_error_length"
  /\ call.again
  /\ call.ret > 0
  /\ crossterm_has_error(TL, call.thread)

----------------------------------------------------------------------------
----------------------------------------------------------------------------
\* the step is a crossterm_last_error_message() that cannot build its buffer:
\* the rendered message holds a 0 byte, or libc::malloc returned null
CannotBuild ==
  /\ call'.op = "crossterm_last_error_message"
  /\ HasNul(call'.arg) \/ oom' = oom + 1

\* C18 as stated: a crossterm_last_error_message() that cannot build its
\* buffer returns null and records nothing: no Last Error is held after it.
C18_SilentNull ==
  [][CannotBuild
       => /\ call'.ret = NULL
          /\ ~crossterm_has_error(TL', call'.thread)]_vars

\* C18 as amended: a crossterm_last_error_message() that cannot build its
\* buffer returns null and records the failure in place of the error it
\* took: "Unable to convert <message> to CString" when the message holds a
\* 0 byte, else "Unable to malloc for <message>".
C18_NullRecorded ==
  [][CannotBuild
       => /\ call'.ret = NULL
          /\ LAST_ERROR'[call'.thread] =
               anyhow(IF HasNul(call'.arg)
                      THEN PfxUnableToConvert \o call'.arg \o SfxToCString
                      ELSE PfxUnableToMalloc \o call'.arg)]_vars

\* C18 witness: a message holding a 0 byte could not be handed out, and an
\* error is held after the call
C18_Witness ==
  /\ call.op = "crossterm_last_error_message"
  /\ HasNul(call.arg)
  /\ call.ret = NULL
  /\ crossterm_has_error(TL, call.thread)

----------------------------------------------------------------------------
\* the call failed with an error its record tells: a poll (the delegate's
\* result is recorded), a crossterm_free_c_char(NULL), a
\* crossterm_style_print_char of a number that is no char
FailedTelling(c) ==
  /\ c.outcome = "fail"
  /\ \/ c.op \in {"crossterm_event_poll", "crossterm_free_c_char"}
     \/ c.op = "crossterm_style_print_char" /\ ~from_u32_is_some(c.arg)

\* the error such a call failed with
ErrorOf(c) ==
  IF c.op = "crossterm_event_poll" THEN c.arg.err
  ELSE IF c.op = "crossterm_free_c_char" THEN anyhow(MsgNullFree)
  ELSE anyhow(PfxUnableToConvert \o Decimal(c.arg) \o SfxToValidChar)

----------------------------------------------------------------------------
\* the exported operations that read or clear the error channel or free a
\* buffer
AccessorOps ==
  {"crossterm_has_error", "crossterm_clear_last_error",
   "crossterm_last_error_length", "crossterm_last_error_message",
   "crossterm_free_c_char"}

\* C20: crossterm_has_error, crossterm_clear_last_error,
\* crossterm_last_error_length, crossterm_last_error_message and
\* crossterm_free_c_char leave the status of every thread as it was; a
\* status that was -1 reads 0 only after a wrapper call of that thread that
\* succeeded.
C20_StatusSticky ==
  [][/\ call'.op \in AccessorOps => RESULT' = RESULT
     /\ \A t \in DOMAIN RESULT :
          (RESULT[t] = -1 /\ RESULT'[t] = 0)
            => /\ call'.thread = t
               /\ call'.op \in WrapperOps
               /\ call'.outcome = "ok"
    ]_vars

\* C20 witness: after a failed call the error channel was cleared, twice
\* in a row, every buffer handed out is freed, and the status still reads -1
C20_Witness ==
  /\ call.op = "crossterm_clear_last_error"
  /\ call.again
  /\ RESULT[call.thread] = -1
  /\ ~crossterm_has_error(TL, call.thread)
  /\ \A a \in Addrs : ~mem[a]

----------------------------------------------------------------------------
\* the text the call handed to convert_string_to_c_char
TextOf(c) ==
  IF c.op = "convert_string_to_c_char" THEN c.arg.string ELSE c.arg

\* C21: every non-null buffer convert_string_to_c_char returns, directly or
\* through crossterm_last_error_message, is one byte longer than the text,
\* ends in a 0 byte and has no 0 byte before it; for the text "ok" it is
\* the three bytes 'o', 'k', 0.
C21_BufferShape ==
  (call.op \in {"convert_string_to_c_char", "crossterm_last_error_message"}
     /\ call.ret # NULL)
    => /\ Len(call.buf) = Len(TextOf(call)) + 1
       /\ call.buf[Len(call.buf)] = 0
       /\ \A i \in 1..(Len(call.buf) - 1) : call.buf[i] # 0
       /\ TextOf(call) = <<111, 107>> => call.buf = <<111, 107, 0>>

\* C21 witness: the text "ok" was converted into the buffer 'o', 'k', 0
C21_Witness ==
  /\ call.op = "convert_string_to_c_char"
  /\ call.arg.string = <<111, 107>>
  /\ call.ret # NULL
  /\ mem[call.ret]
  /\ call.buf = <<111, 107, 0>>

\* a step in which crossterm_event_read returned (the terminal gaining an
\* event is the only step no call makes, and it adds an event)
ReadStep == call'.op = "crossterm_event_read" /\ Len(events') <= Len(events)

\* after crossterm_event_poll returned 1 an event is pending, it stays the
\* oldest pending one while no read takes it, and the read that finds it
\* does not wait for the terminal and takes it
PollThenRead ==
  /\ (call'.op = "crossterm_event_poll" /\ call'.ret = 1) => events' # <<>>
  /\ (events # <<>> /\ ~ReadStep) => (events' # <<>> /\ Head(events') = Head(events))
  /\ (events # <<>> /\ ReadStep)
       => /\ call'.outcome = "ready"
          /\ call'.arg = Ok(Head(events))
          /\ events' = Tail(events)

\* C22 as stated: when crossterm_event_poll returns 1, the next
\* crossterm_event_read, with no other reader in between, does not block
\* and returns the pending event.
C22_ReadReturnsPendingAlways ==
  [][/\ PollThenRead
     /\ (events # <<>> /\ ReadStep)
          => /\ call'.ret # NULL
             /\ call'.buf = Append(to_string_event(Head(events)), 0)]_vars

\* C22: when crossterm_event_poll returns 1, the next crossterm_event_read,
\* with no other reader in between, does not block and takes the pending
\* event; it returns that event as JSON when libc::malloc gives it a
\* buffer, and otherwise returns null with "Unable to malloc for <the JSON>"
\* as the Last Error, the event being lost.
C22_ReadReturnsPending ==
  [][/\ PollThenRead
     /\ (events # <<>> /\ ReadStep)
          => IF call'.ret # NULL
             THEN call'.buf = Append(to_string_event(Head(events)), 0)
             ELSE LAST_ERROR'[call'.thread] =
                    anyhow(PfxUnableToMalloc \o to_string_event(Head(events)))]_vars

\* a read that followed a poll answering 1 and handed out the event
C22_Witness ==
  /\ call.op = "crossterm_event_read" /\ call.polled /\ call.outcome = "ready"
  /\ call.ret # NULL /\ call.buf = Append(JsonString(FocusGained), 0)
  /\ events = <<>>

\* the wrappers of SpecOutput that queue a command, and what a call of each
\* writes when the write succeeds
QueueingOps ==
  {"crossterm_cursor_position_set", "crossterm_style_print_char",
   "crossterm_terminal_begin_synchronized_update",
   "crossterm_terminal_end_synchronized_update"}

CommandBytes(c) ==
  CASE c.op = "crossterm_cursor_position_set" -> MoveTo(c.arg[1], c.arg[2])
    [] c.op = "crossterm_style_print_char" -> Utf8(c.arg)
    [] c.op = "crossterm_terminal_begin_synchronized_update" -> BeginSynchronizedUpdate
    [] c.op = "crossterm_terminal_end_synchronized_update" -> EndSynchronizedUpdate

C24_HasErrorPure ==
  [][call'.op = "crossterm_has_error"
       => /\ call'.ret = (IF LAST_ERROR[call'.thread] # None THEN 1 ELSE 0)
          /\ LAST_ERROR' = LAST_ERROR
          /\ RESULT' = RESULT
          /\ call'.again => call'.ret = call.ret]_vars

\* the query answered true a second time in a row, the error still there
C24_Witness ==
  /\ call.op = "crossterm_has_error" /\ call.again /\ call.ret = 1
  /\ LAST_ERROR[call.thread] # None

\* C25: crossterm_clear_last_error() leaves the calling thread without a
\* Last Error, whether it had one or not, and touches nothing else; a second
\* call right after the first changes nothing at all.
C25_ClearIdempotent ==
  [][call'.op = "crossterm_clear_last_error"
       => /\ ~crossterm_has_error(TL', call'.thread)
          /\ LAST_ERROR' = [LAST_ERROR EXCEPT ![call'.thread] = None]
          /\ RESULT' = RESULT
          /\ UNCHANGED <<mem, stdout, oom, panicked, strings, events>>
          /\ call'.again => UNCHANGED <<RESULT, LAST_ERROR>>]_vars

\* a second clear in a row on a thread that had failed: it found no error
\* to drop and none is there
C25_Witness ==
  /\ call.op = "crossterm_clear_last_error" /\ call.again /\ call.arg = None
  /\ RESULT[call.thread] = -1
  /\ LAST_ERROR[call.thread] = None

\* a step in which crossterm_last_error_message returned right after a
\* crossterm_last_error_length of the same thread
MessageAfterLength ==
  /\ call.op = "crossterm_last_error_length"
  /\ call'.op = "crossterm_last_error_message"
  /\ call'.thread = call.thread

\* a length query repeated at once returns what it returned before
LengthRepeats ==
  (call'.op = "crossterm_last_error_length" /\ call'.again) => call'.ret = call.ret

\* C26 as stated: with a Last Error present the length returned equals the
\* size of the buffer the message call right after it returns, however
\* often the length was asked for; with none present the length is 0 and
\* the message call returns the fallback text in a buffer.
C26_LengthAgreesAlways ==
  [][/\ LengthRepeats
     /\ MessageAfterLength
          => /\ call'.ret # NULL
             /\ IF LAST_ERROR[call.thread] # None
                THEN call.ret = Len(call'.buf)
                ELSE call.ret = 0 /\ call'.buf = Append(MsgNoError, 0)]_vars

\* C26: the same, for a message call that libc::malloc gives a buffer; when
\* libc::malloc returns null the message call returns null, whatever the
\* length was, and leaves "Unable to malloc for <the text>" as Last Error.
C26_LengthAgrees ==
  [][/\ LengthRepeats
     /\ MessageAfterLength
          => IF call'.ret # NULL
             THEN IF LAST_ERROR[call.thread] # None
                  THEN call.ret = Len(call'.buf)
                  ELSE call.ret = 0 /\ call'.buf = Append(MsgNoError, 0)
             ELSE LAST_ERROR'[call.thread] = anyhow(PfxUnableToMalloc \o call'.arg)]_vars

\* the length asked for, then the message returned in a buffer of that size
C26_Witness ==
  /\ call.op = "crossterm_last_error_message" /\ call.ret # NULL
  /\ call.buf = Append(EBADF, 0)
  /\ call.measured = Len(call.buf)
  /\ RESULT[call.thread] = -1

\* c is a surrogate or lies beyond U+10FFFF
NotScalar(c) == (c >= 55296 /\ c <= 57343) \/ c > 1114111

\* C27: crossterm_style_print_char(c) with c not a Unicode scalar value
\* returns -1, leaves "Unable to convert <c> to valid char" as Last Error
\* and queues nothing; with a scalar value it returns the status its write
\* left: 0 with the character's UTF-8 bytes queued, or -1 with nothing queued.
C27_PrintChar ==
  [][call'.op = "crossterm_style_print_char"
       => IF NotScalar(call'.arg)
          THEN /\ call'.ret = -1
               /\ LAST_ERROR'[call'.thread] =
                    anyhow(PfxUnableToConvert \o Decimal(call'.arg) \o SfxToValidChar)
               /\ stdout' = stdout
          ELSE /\ call'.ret = RESULT'[call'.thread]
               /\ call'.ret = (IF call'.outcome = "ok" THEN 0 ELSE -1)
               /\ stdout' = (IF call'.outcome = "ok"
                             THEN Append(stdout, Utf8(call'.arg)) ELSE stdout)]_vars

\* a surrogate refused with -1 while the status is still 0, behind a
\* character that was queued
C27_Witness ==
  /\ call.op = "crossterm_style_print_char" /\ call.arg = 55296 /\ call.ret = -1
  /\ LAST_ERROR[call.thread] # None
  /\ RESULT[call.thread] = 0
  /\ stdout = <<Utf8(111)>>

\* C28: every crossterm_event_poll(secs, nanos) returns, with -1, 0 or 1,
\* whatever secs and nanos are: building the timeout never panics.
C28_PollTotal ==
  call.op = "crossterm_event_poll"
    => (call.outcome # "panic" /\ call.ret \in {-1, 0, 1})

\* a call that reports a failure: its delegated operation or its argument
\* check failed, or it returned null for a buffer
FailingCall(c) ==
  \/ c.outcome = "fail"
  \/ /\ c.op \in {"crossterm_last_error_message", "crossterm_event_read",
                  "convert_string_to_c_char"}
     /\ c.ret = NULL

\* C29: the status of every thread is 0 or -1 in every reachable state; a
\* thread starts with status 0 and no Last Error, and only a failing call of
\* its own gives it status -1 or a Last Error, so until then
\* crossterm_has_error() returns false and crossterm_last_error_length() 0.
C29_StatusRange ==
  [][\A t \in DOMAIN RESULT :
       /\ RESULT[t] \in {0, -1} /\ RESULT'[t] \in {0, -1}
       /\ call.op = "none" => (RESULT[t] = 0 /\ LAST_ERROR[t] = None)
       /\ ((RESULT[t] = 0 /\ RESULT'[t] = -1) \/ (LAST_ERROR[t] = None /\ LAST_ERROR'[t] # None))
            => (call'.thread = t /\ FailingCall(call'))
       /\ (call'.thread = t /\ LAST_ERROR[t] = None /\ call'.op = "crossterm_has_error")
            => call'.ret = 0
       /\ (call'.thread = t /\ LAST_ERROR[t] = None /\ call'.op = "crossterm_last_error_length")
            => call'.ret = 0]_vars

\* thread 1 failed and holds its error; thread 2, still with status 0 and no
\* error, asked for the length and got 0
C29_Witness ==
  /\ DOMAIN RESULT = ThreadsMT
  /\ RESULT[1] = -1 /\ LAST_ERROR[1] # None
  /\ RESULT[2] = 0 /\ LAST_ERROR[2] = None
  /\ call.thread = 2 /\ call.op = "crossterm_last_error_length" /\ call.ret = 0

\* C30: crossterm_colors and crossterm_event_read, when they return a
\* buffer, and crossterm_sleep leave the status and the Last Error of every
\* thread as they were: a stale error stays and a status of -1 stays.
C30_NoTouch ==
  [][(\/ call'.op = "crossterm_sleep"
      \/ call'.op \in {"crossterm_colors", "crossterm_event_read"} /\ call'.ret # NULL)
       => (RESULT' = RESULT /\ LAST_ERROR' = LAST_ERROR)]_vars

\* the colors returned while the thread has status -1 and a Last Error
C30_Witness ==
  /\ call.op = "crossterm_colors" /\ call.ret # NULL
  /\ call.buf = Append(COLORS, 0)
  /\ RESULT[call.thread] = -1
  /\ LAST_ERROR[call.thread] = <<EBADF>>
============================================================================
